---- MODULE Spec2Model ----
(***************************************************************************)
(* Model of detect_image.py: the label loader load_labels and the batch    *)
(* pipeline main().                                                        *)
(*                                                                         *)
(* Text is modelled as sequences of characters.  Scores are in tenths      *)
(* (0.9 is 9, the default threshold 0.4 is 4).  File names returned by     *)
(* glob are modelled by their position in the directory listing.           *)
(***************************************************************************)
EXTENDS Integers, Sequences, FiniteSets, TLC

VARIABLES
  \* label-loader harness
  file,        \* content of the label file
  fmt,         \* how the file came about: "given", "indexed" or "bare"
  M,           \* the mapping a written file was produced from
  result,      \* what load_labels returned or raised
  lpc,         \* position of the harness
  \* main()
  pc,          \* position in main()
  err,         \* the exception that ended the run, "none" while running
  args,        \* parsed command line
  dir_n,       \* number of files matching test_images/*.jpg
  scenario,    \* which canned behaviour the stubbed runtime follows
  labels,      \* line 91
  img_name,    \* line 95
  idx,         \* position of "for img in img_name" (1-based)
  run,         \* iterations of "for _ in range(args.count)" done on this image
  objs,        \* line 118; unbound until first assigned
  pos,         \* position of the innermost running for loop over a list/range
  img_n, img_id, img_x, img_y, img_w, img_h, img_score,   \* lines 96-102
  img_csv,     \* line 103
  i,           \* line 104
  stdout,      \* result lines printed so far
  annotated    \* what image.save(args.output) last wrote

lvars == <<file, fmt, M, result, lpc>>

acc == <<img_n, img_id, img_x, img_y, img_w, img_h, img_score>>

mvars == <<pc, err, args, dir_n, scenario, labels, img_name, idx, run, objs,
           pos, acc, img_csv, i, stdout, annotated>>

vars == <<lvars, mvars>>

(***************************************************************************)
(* Characters.  A character is a string: itself when it is printable       *)
(* ASCII, otherwise its code point, "U+00B2" for the                       *)
(* superscript two, "U+0661" for the Arabic-Indic digit one, "U+000B" for  *)
(* the vertical tab; tab, line feed, carriage return and form feed are     *)
(* "\t", "\n", "\r" and "\f".  The tables below list, over all of Unicode, *)
(* the characters that str.isdecimal(), str.isdigit() and str.isspace()    *)
(* accept; every other character is an ordinary one.                       *)
(***************************************************************************)
\* the ASCII digits, in order of value
DigitChars == <<"0", "1", "2", "3", "4", "5", "6", "7", "8", "9">>

\* DecimalDigits[d + 1]: the decimal digits (category Nd) of value d, the
\* characters int() reads as the digit d
DecimalDigits ==
  << { "0", "U+0660", "U+06F0", "U+07C0", "U+0966", "U+09E6", "U+0A66",
       "U+0AE6", "U+0B66", "U+0BE6", "U+0C66", "U+0CE6", "U+0D66", "U+0DE6",
       "U+0E50", "U+0ED0", "U+0F20", "U+1040", "U+1090", "U+17E0", "U+1810",
       "U+1946", "U+19D0", "U+1A80", "U+1A90", "U+1B50", "U+1BB0", "U+1C40",
       "U+1C50", "U+A620", "U+A8D0", "U+A900", "U+A9D0", "U+A9F0", "U+AA50",
       "U+ABF0", "U+FF10", "U+104A0", "U+10D30", "U+11066", "U+110F0",
       "U+11136", "U+111D0", "U+112F0", "U+11450", "U+114D0", "U+11650",
       "U+116C0", "U+11730", "U+118E0", "U+11950", "U+11C50", "U+11D50",
       "U+11DA0", "U+16A60", "U+16AC0", "U+16B50", "U+1D7CE", "U+1D7D8",
       "U+1D7E2", "U+1D7EC", "U+1D7F6", "U+1E140", "U+1E2F0", "U+1E950",
       "U+1FBF0" },
     { "1", "U+0661", "U+06F1", "U+07C1", "U+0967", "U+09E7", "U+0A67",
       "U+0AE7", "U+0B67", "U+0BE7", "U+0C67", "U+0CE7", "U+0D67", "U+0DE7",
       "U+0E51", "U+0ED1", "U+0F21", "U+1041", "U+1091", "U+17E1", "U+1811",
       "U+1947", "U+19D1", "U+1A81", "U+1A91", "U+1B51", "U+1BB1", "U+1C41",
       "U+1C51", "U+A621", "U+A8D1", "U+A901", "U+A9D1", "U+A9F1", "U+AA51",
       "U+ABF1", "U+FF11", "U+104A1", "U+10D31", "U+11067", "U+110F1",
       "U+11137", "U+111D1", "U+112F1", "U+11451", "U+114D1", "U+11651",
       "U+116C1", "U+11731", "U+118E1", "U+11951", "U+11C51", "U+11D51",
       "U+11DA1", "U+16A61", "U+16AC1", "U+16B51", "U+1D7CF", "U+1D7D9",
       "U+1D7E3", "U+1D7ED", "U+1D7F7", "U+1E141", "U+1E2F1", "U+1E951",
       "U+1FBF1" },
     { "2", "U+0662", "U+06F2", "U+07C2", "U+0968", "U+09E8", "U+0A68",
       "U+0AE8", "U+0B68", "U+0BE8", "U+0C68", "U+0CE8", "U+0D68", "U+0DE8",
       "U+0E52", "U+0ED2", "U+0F22", "U+1042", "U+1092", "U+17E2", "U+1812",
       "U+1948", "U+19D2", "U+1A82", "U+1A92", "U+1B52", "U+1BB2", "U+1C42",
       "U+1C52", "U+A622", "U+A8D2", "U+A902", "U+A9D2", "U+A9F2", "U+AA52",
       "U+ABF2", "U+FF12", "U+104A2", "U+10D32", "U+11068", "U+110F2",
       "U+11138", "U+111D2", "U+112F2", "U+11452", "U+114D2", "U+11652",
       "U+116C2", "U+11732", "U+118E2", "U+11952", "U+11C52", "U+11D52",
       "U+11DA2", "U+16A62", "U+16AC2", "U+16B52", "U+1D7D0", "U+1D7DA",
       "U+1D7E4", "U+1D7EE", "U+1D7F8", "U+1E142", "U+1E2F2", "U+1E952",
       "U+1FBF2" },
     { "3", "U+0663", "U+06F3", "U+07C3", "U+0969", "U+09E9", "U+0A69",
       "U+0AE9", "U+0B69", "U+0BE9", "U+0C69", "U+0CE9", "U+0D69", "U+0DE9",
       "U+0E53", "U+0ED3", "U+0F23", "U+1043", "U+1093", "U+17E3", "U+1813",
       "U+1949", "U+19D3", "U+1A83", "U+1A93", "U+1B53", "U+1BB3", "U+1C43",
       "U+1C53", "U+A623", "U+A8D3", "U+A903", "U+A9D3", "U+A9F3", "U+AA53",
       "U+ABF3", "U+FF13", "U+104A3", "U+10D33", "U+11069", "U+110F3",
       "U+11139", "U+111D3", "U+112F3", "U+11453", "U+114D3", "U+11653",
       "U+116C3", "U+11733", "U+118E3", "U+11953", "U+11C53", "U+11D53",
       "U+11DA3", "U+16A63", "U+16AC3", "U+16B53", "U+1D7D1", "U+1D7DB",
       "U+1D7E5", "U+1D7EF", "U+1D7F9", "U+1E143", "U+1E2F3", "U+1E953",
       "U+1FBF3" },
     { "4", "U+0664", "U+06F4", "U+07C4", "U+096A", "U+09EA", "U+0A6A",
       "U+0AEA", "U+0B6A", "U+0BEA", "U+0C6A", "U+0CEA", "U+0D6A", "U+0DEA",
       "U+0E54", "U+0ED4", "U+0F24", "U+1044", "U+1094", "U+17E4", "U+1814",
       "U+194A", "U+19D4", "U+1A84", "U+1A94", "U+1B54", "U+1BB4", "U+1C44",
       "U+1C54", "U+A624", "U+A8D4", "U+A904", "U+A9D4", "U+A9F4", "U+AA54",
       "U+ABF4", "U+FF14", "U+104A4", "U+10D34", "U+1106A", "U+110F4",
       "U+1113A", "U+111D4", "U+112F4", "U+11454", "U+114D4", "U+11654",
       "U+116C4", "U+11734", "U+118E4", "U+11954", "U+11C54", "U+11D54",
       "U+11DA4", "U+16A64", "U+16AC4", "U+16B54", "U+1D7D2", "U+1D7DC",
       "U+1D7E6", "U+1D7F0", "U+1D7FA", "U+1E144", "U+1E2F4", "U+1E954",
       "U+1FBF4" },
     { "5", "U+0665", "U+06F5", "U+07C5", "U+096B", "U+09EB", "U+0A6B",
       "U+0AEB", "U+0B6B", "U+0BEB", "U+0C6B", "U+0CEB", "U+0D6B", "U+0DEB",
       "U+0E55", "U+0ED5", "U+0F25", "U+1045", "U+1095", "U+17E5", "U+1815",
       "U+194B", "U+19D5", "U+1A85", "U+1A95", "U+1B55", "U+1BB5", "U+1C45",
       "U+1C55", "U+A625", "U+A8D5", "U+A905", "U+A9D5", "U+A9F5", "U+AA55",
       "U+ABF5", "U+FF15", "U+104A5", "U+10D35", "U+1106B", "U+110F5",
       "U+1113B", "U+111D5", "U+112F5", "U+11455", "U+114D5", "U+11655",
       "U+116C5", "U+11735", "U+118E5", "U+11955", "U+11C55", "U+11D55",
       "U+11DA5", "U+16A65", "U+16AC5", "U+16B55", "U+1D7D3", "U+1D7DD",
       "U+1D7E7", "U+1D7F1", "U+1D7FB", "U+1E145", "U+1E2F5", "U+1E955",
       "U+1FBF5" },
     { "6", "U+0666", "U+06F6", "U+07C6", "U+096C", "U+09EC", "U+0A6C",
       "U+0AEC", "U+0B6C", "U+0BEC", "U+0C6C", "U+0CEC", "U+0D6C", "U+0DEC",
       "U+0E56", "U+0ED6", "U+0F26", "U+1046", "U+1096", "U+17E6", "U+1816",
       "U+194C", "U+19D6", "U+1A86", "U+1A96", "U+1B56", "U+1BB6", "U+1C46",
       "U+1C56", "U+A626", "U+A8D6", "U+A906", "U+A9D6", "U+A9F6", "U+AA56",
       "U+ABF6", "U+FF16", "U+104A6", "U+10D36", "U+1106C", "U+110F6",
       "U+1113C", "U+111D6", "U+112F6", "U+11456", "U+114D6", "U+11656",
       "U+116C6", "U+11736", "U+118E6", "U+11956", "U+11C56", "U+11D56",
       "U+11DA6", "U+16A66", "U+16AC6", "U+16B56", "U+1D7D4", "U+1D7DE",
       "U+1D7E8", "U+1D7F2", "U+1D7FC", "U+1E146", "U+1E2F6", "U+1E956",
       "U+1FBF6" },
     { "7", "U+0667", "U+06F7", "U+07C7", "U+096D", "U+09ED", "U+0A6D",
       "U+0AED", "U+0B6D", "U+0BED", "U+0C6D", "U+0CED", "U+0D6D", "U+0DED",
       "U+0E57", "U+0ED7", "U+0F27", "U+1047", "U+1097", "U+17E7", "U+1817",
       "U+194D", "U+19D7", "U+1A87", "U+1A97", "U+1B57", "U+1BB7", "U+1C47",
       "U+1C57", "U+A627", "U+A8D7", "U+A907", "U+A9D7", "U+A9F7", "U+AA57",
       "U+ABF7", "U+FF17", "U+104A7", "U+10D37", "U+1106D", "U+110F7",
       "U+1113D", "U+111D7", "U+112F7", "U+11457", "U+114D7", "U+11657",
       "U+116C7", "U+11737", "U+118E7", "U+11957", "U+11C57", "U+11D57",
       "U+11DA7", "U+16A67", "U+16AC7", "U+16B57", "U+1D7D5", "U+1D7DF",
       "U+1D7E9", "U+1D7F3", "U+1D7FD", "U+1E147", "U+1E2F7", "U+1E957",
       "U+1FBF7" },
     { "8", "U+0668", "U+06F8", "U+07C8", "U+096E", "U+09EE", "U+0A6E",
       "U+0AEE", "U+0B6E", "U+0BEE", "U+0C6E", "U+0CEE", "U+0D6E", "U+0DEE",
       "U+0E58", "U+0ED8", "U+0F28", "U+1048", "U+1098", "U+17E8", "U+1818",
       "U+194E", "U+19D8", "U+1A88", "U+1A98", "U+1B58", "U+1BB8", "U+1C48",
       "U+1C58", "U+A628", "U+A8D8", "U+A908", "U+A9D8", "U+A9F8", "U+AA58",
       "U+ABF8", "U+FF18", "U+104A8", "U+10D38", "U+1106E", "U+110F8",
       "U+1113E", "U+111D8", "U+112F8", "U+11458", "U+114D8", "U+11658",
       "U+116C8", "U+11738", "U+118E8", "U+11958", "U+11C58", "U+11D58",
       "U+11DA8", "U+16A68", "U+16AC8", "U+16B58", "U+1D7D6", "U+1D7E0",
       "U+1D7EA", "U+1D7F4", "U+1D7FE", "U+1E148", "U+1E2F8", "U+1E958",
       "U+1FBF8" },
     { "9", "U+0669", "U+06F9", "U+07C9", "U+096F", "U+09EF", "U+0A6F",
       "U+0AEF", "U+0B6F", "U+0BEF", "U+0C6F", "U+0CEF", "U+0D6F", "U+0DEF",
       "U+0E59", "U+0ED9", "U+0F29", "U+1049", "U+1099", "U+17E9", "U+1819",
       "U+194F", "U+19D9", "U+1A89", "U+1A99", "U+1B59", "U+1BB9", "U+1C49",
       "U+1C59", "U+A629", "U+A8D9", "U+A909", "U+A9D9", "U+A9F9", "U+AA59",
       "U+ABF9", "U+FF19", "U+104A9", "U+10D39", "U+1106F", "U+110F9",
       "U+1113F", "U+111D9", "U+112F9", "U+11459", "U+114D9", "U+11659",
       "U+116C9", "U+11739", "U+118E9", "U+11959", "U+11C59", "U+11D59",
       "U+11DA9", "U+16A69", "U+16AC9", "U+16B59", "U+1D7D7", "U+1D7E1",
       "U+1D7EB", "U+1D7F5", "U+1D7FF", "U+1E149", "U+1E2F9", "U+1E959",
       "U+1FBF9" } >>

\* digits that are not decimal digits (superscripts, circled digits, ...):
\* str.isdigit() accepts them, int() does not
OtherDigits ==
  { "U+00B2", "U+00B3", "U+00B9", "U+1369", "U+136A", "U+136B", "U+136C",
    "U+136D", "U+136E", "U+136F", "U+1370", "U+1371", "U+19DA", "U+2070",
    "U+2074", "U+2075", "U+2076", "U+2077", "U+2078", "U+2079", "U+2080",
    "U+2081", "U+2082", "U+2083", "U+2084", "U+2085", "U+2086", "U+2087",
    "U+2088", "U+2089", "U+2460", "U+2461", "U+2462", "U+2463", "U+2464",
    "U+2465", "U+2466", "U+2467", "U+2468", "U+2474", "U+2475", "U+2476",
    "U+2477", "U+2478", "U+2479", "U+247A", "U+247B", "U+247C", "U+2488",
    "U+2489", "U+248A", "U+248B", "U+248C", "U+248D", "U+248E", "U+248F",
    "U+2490", "U+24EA", "U+24F5", "U+24F6", "U+24F7", "U+24F8", "U+24F9",
    "U+24FA", "U+24FB", "U+24FC", "U+24FD", "U+24FF", "U+2776", "U+2777",
    "U+2778", "U+2779", "U+277A", "U+277B", "U+277C", "U+277D", "U+277E",
    "U+2780", "U+2781", "U+2782", "U+2783", "U+2784", "U+2785", "U+2786",
    "U+2787", "U+2788", "U+278A", "U+278B", "U+278C", "U+278D", "U+278E",
    "U+278F", "U+2790", "U+2791", "U+2792", "U+10A40", "U+10A41", "U+10A42",
    "U+10A43", "U+10E60", "U+10E61", "U+10E62", "U+10E63", "U+10E64",
    "U+10E65", "U+10E66", "U+10E67", "U+10E68", "U+11052", "U+11053",
    "U+11054", "U+11055", "U+11056", "U+11057", "U+11058", "U+11059",
    "U+1105A", "U+1F100", "U+1F101", "U+1F102", "U+1F103", "U+1F104",
    "U+1F105", "U+1F106", "U+1F107", "U+1F108", "U+1F109", "U+1F10A" }

\* what str.strip() removes
Whitespace ==
  { "\t", "\n", "U+000B", "\f", "\r", "U+001C", "U+001D", "U+001E",
    "U+001F", " ", "U+0085", "U+00A0", "U+1680", "U+2000", "U+2001",
    "U+2002", "U+2003", "U+2004", "U+2005", "U+2006", "U+2007", "U+2008",
    "U+2009", "U+200A", "U+2028", "U+2029", "U+202F", "U+205F", "U+3000" }

\* the separators U+001C..U+001F are whitespace to str.strip() but not to
\* int()
NotIntWhitespace == { "U+001C", "U+001D", "U+001E", "U+001F" }

IntWhitespace == Whitespace \ NotIntWhitespace

\* sys.get_int_max_str_digits(): int() raises ValueError for a literal of
\* more decimal digits than this (the interpreter's default)
IntMaxStrDigits == 4300

IsDecimal(c) == \E d \in 1..Len(DecimalDigits) : c \in DecimalDigits[d]

IsDigit(c) == IsDecimal(c) \/ c \in OtherDigits

(***************************************************************************)
(* Bounds of the label-loader inputs.                                      *)
(***************************************************************************)
MaxFileLen == 6
MaxWideLen == 4
MaxLines == 2
MaxLabels == 2

FileAlphabet == {"0", "1", "a", " ", "\n"}

\* FileAlphabet and one character of every further kind load_labels tells
\* apart: carriage return, other whitespace, whitespace int() rejects, sign,
\* underscore, a non-ASCII decimal digit, a digit that is not decimal
WideAlphabet ==
  FileAlphabet \cup {"\r", "\t", "U+001C", "+", "_", "U+0661", "U+00B2"}

Min(S) == CHOOSE x \in S : \A y \in S : x <= y
Max(S) == CHOOSE x \in S : \A y \in S : x >= y

\* the empty dict {}
EmptyMap == [k \in {} |-> <<>>]

(***************************************************************************)
(* String primitives used by load_labels.                                  *)
(***************************************************************************)
\* index of the first occurrence of c in s, 0 when absent
Find(s, c) ==
  IF \E k \in 1..Len(s) : s[k] = c
  THEN Min({k \in 1..Len(s) : s[k] = c})
  ELSE 0

\* reading in text mode with universal newlines: "\r\n" and a lone "\r" are
\* delivered as "\n"
translate_newlines(f) ==
  LET kept == SelectSeq([k \in 1..Len(f) |-> k],
                        LAMBDA k : ~(f[k] = "\r" /\ k < Len(f)
                                                 /\ f[k + 1] = "\n"))
  IN [j \in 1..Len(kept) |-> IF f[kept[j]] = "\r" THEN "\n" ELSE f[kept[j]]]

\* the text cut after each newline, every line keeping its terminating
\* newline, and the unterminated rest as a last line
cut_lines(t) ==
  LET ends == {k \in 1..Len(t) : t[k] = "\n" \/ k = Len(t)}
      endOf(j) == CHOOSE e \in ends : Cardinality({x \in ends : x <= e}) = j
      startOf(j) == IF j = 1 THEN 1 ELSE endOf(j - 1) + 1
  IN [j \in 1..Cardinality(ends) |-> SubSeq(t, startOf(j), endOf(j))]

\* open(path, 'r').readlines()
readlines(f) == cut_lines(translate_newlines(f))

\* variant of split1: splits at the last space (rsplit)
split1_AtLastSpace(line) ==
  LET at == {k \in 1..Len(line) : line[k] = " "}
  IN IF at = {} THEN <<line>>
     ELSE <<SubSeq(line, 1, Max(at) - 1), SubSeq(line, Max(at) + 1, Len(line))>>

\* line.split(' ', maxsplit=1)
split1(line) ==
  LET k == Find(line, " ")
  IN IF k = 0 THEN <<line>>
     ELSE <<SubSeq(line, 1, k - 1), SubSeq(line, k + 1, Len(line))>>

\* str.isdigit(): not empty and every character is a digit
isdigit(s) ==
  /\ s # <<>>
  /\ \A k \in 1..Len(s) : IsDigit(s[k])

\* s without its leading and trailing characters of W
strip_set(s, W) ==
  LET keep == {k \in 1..Len(s) : s[k] \notin W}
      fromEnd == {k \in 1..Len(s) : s[Len(s) + 1 - k] \notin W}
  IN IF keep = {} THEN <<>>
     ELSE SubSeq(s, Min(keep), Len(s) + 1 - Min(fromEnd))

\* str.strip()
strip(s) == strip_set(s, Whitespace)

\* the value of a decimal digit
DigitVal(c) == (CHOOSE d \in 1..Len(DecimalDigits) : c \in DecimalDigits[d]) - 1

\* the number a run of decimal digits that does not begin with a zero denotes
RECURSIVE SignificantValue(_)
SignificantValue(s) ==
  IF s = <<>> THEN 0
  ELSE IF Len(s) = 1 THEN DigitVal(s[1])
  ELSE LET low == Len(s) \div 2
       IN SignificantValue(SubSeq(s, 1, Len(s) - low)) * (10 ^ low)
            + SignificantValue(SubSeq(s, Len(s) - low + 1, Len(s)))

\* the number a run of decimal digits denotes: leading zeros do not count
\* (computed in the integers of the checker, so for runs of up to nine
\* significant digits)
DecimalValue(s) ==
  LET significant == {k \in 1..Len(s) : DigitVal(s[k]) # 0}
  IN IF significant = {} THEN 0
     ELSE SignificantValue(SubSeq(s, Min(significant), Len(s)))

\* the literal int() parses: s without surrounding whitespace
int_literal(s) == strip_set(s, IntWhitespace)

int_signed(t) == t # <<>> /\ t[1] \in {"+", "-"}

\* the literal without its sign
int_body(t) == IF int_signed(t) THEN Tail(t) ELSE t

\* int(s) succeeds: an optional sign, then decimal digits with single
\* underscores allowed between two digits, at most IntMaxStrDigits digits
int_ok(s) ==
  LET b == int_body(int_literal(s))
  IN /\ b # <<>>
     /\ Len(SelectSeq(b, IsDecimal)) <= IntMaxStrDigits
     /\ \A k \in 1..Len(b) :
          \/ IsDecimal(b[k])
          \/ /\ b[k] = "_"
             /\ k > 1 /\ k < Len(b)
             /\ IsDecimal(b[k - 1]) /\ IsDecimal(b[k + 1])

\* int(s) when it succeeds
int(s) ==
  LET t == int_literal(s)
      magnitude == DecimalValue(SelectSeq(int_body(t), IsDecimal))
  IN IF int_signed(t) /\ t[1] = "-" THEN 0 - magnitude ELSE magnitude

(***************************************************************************)
(* load_labels(path): the returned dictionary, or the ValueError raised by *)
(* the unpacking / int() of the dictionary comprehension.                  *)
(***************************************************************************)
\* variant of IndexedLabels: labels kept as read, not stripped
IndexedLabels_NoStrip(lines) ==
  LET pairs == [k \in 1..Len(lines) |-> split1(lines[k])]
  IN IF \E k \in 1..Len(pairs) : Len(pairs[k]) # 2 \/ ~int_ok(pairs[k][1])
     THEN [err |-> "ValueError", map |-> EmptyMap]
     ELSE LET keys == {int(pairs[k][1]) : k \in 1..Len(pairs)}
              last(key) == Max({k \in 1..Len(pairs) : int(pairs[k][1]) = key})
          IN [err |-> "none",
              map |-> [key \in keys |-> pairs[last(key)][2]]]

IndexedLabels(lines) ==
  LET pairs == [k \in 1..Len(lines) |-> split1(lines[k])]
  IN IF \E k \in 1..Len(pairs) : Len(pairs[k]) # 2 \/ ~int_ok(pairs[k][1])
     THEN [err |-> "ValueError", map |-> EmptyMap]
     ELSE LET keys == {int(pairs[k][1]) : k \in 1..Len(pairs)}
              last(key) == Max({k \in 1..Len(pairs) : int(pairs[k][1]) = key})
          IN [err |-> "none",
              map |-> [key \in keys |-> strip(pairs[last(key)][2])]]

\* variant of EnumeratedLabels: enumerate(lines, 1)
EnumeratedLabels_FromOne(lines) ==
  [err |-> "none",
   map |-> [index \in 1..Len(lines) |-> strip(lines[index])]]

EnumeratedLabels(lines) ==
  [err |-> "none",
   map |-> [index \in 0..(Len(lines) - 1) |-> strip(lines[index + 1])]]

load_labels(f) ==
  LET lines == readlines(f)
  IN IF lines = <<>> THEN [err |-> "none", map |-> EmptyMap]
     ELSE IF isdigit(split1(lines[1])[1])
          THEN IndexedLabels(lines)
          ELSE EnumeratedLabels(lines)

(***************************************************************************)
(* Writing a label file from a mapping with keys 0..n-1: one line per key, *)
(* each terminated by a newline, as "<int> <label>" or as the bare label.  *)
(***************************************************************************)
RECURSIVE str(_)
str(n) ==
  IF n < 10 THEN <<DigitChars[n + 1]>>
  ELSE str(n \div 10) \o <<DigitChars[(n % 10) + 1]>>

RECURSIVE WriteFrom(_, _, _)
WriteFrom(m, format, k) ==
  IF k \notin DOMAIN m THEN <<>>
  ELSE (IF format = "indexed" THEN str(k) \o <<" ">> ELSE <<>>)
       \o m[k] \o <<"\n">> \o WriteFrom(m, format, k + 1)

WriteLabels(m, format) == WriteFrom(m, format, 0)

(***************************************************************************)
(* Inputs of the label-loader specification.                               *)
(***************************************************************************)
\* the texts over alphabet A of length at most n
Strings(A, n) == UNION {[1..len -> A] : len \in 0..n}

\* lines that use the further kinds of character in the places where
\* load_labels treats them specially
SampleLines ==
  { <<"0", " ", "a", "\n">>, <<"1", " ", "b", "\n">>,
    <<"0", " ", "a", "\r", "\n">>, <<"1", " ", "b", "\r">>,
    <<"a", "\r">>, <<"b", "\n">>,
    <<"+", "1", " ", "b", "\n">>, <<"-", "1", " ", "b", "\n">>,
    <<"1", "_", "0", " ", "b", "\n">>, <<"1", "_", " ", "b", "\n">>,
    <<"\t", "1", " ", "b", "\n">>, <<"1", "U+001C", " ", "b", "\n">>,
    <<"U+0661", " ", "a", "\n">>, <<"U+0661", "0", " ", "b", "\n">>,
    <<"U+00B2", " ", "a", "\n">>, <<"U+FF11", " ", "a", "\n">>,
    <<"\t", "a", "\t", "\n">>, <<"U+00A0", "a", "U+000B", "\n">>,
    <<"0", " ", "U+3000", "a", "U+0085", "\n">> }

RECURSIVE Concat(_)
Concat(ls) == IF ls = <<>> THEN <<>> ELSE Head(ls) \o Concat(Tail(ls))

\* the texts made of at most n sample lines
SampleFiles(n) ==
  {Concat(ls) : ls \in UNION {[1..len -> SampleLines] : len \in 0..n}}

\* the character c, n times
Repeat(c, n) == [k \in 1..n |-> c]

\* files whose index is as long as int() allows, and one digit longer
LongIndexFiles ==
  { Repeat("0", IntMaxStrDigits - 1) \o <<"1", " ", "a", "\n">>,
    Repeat("0", IntMaxStrDigits + 1) \o <<" ", "a", "\n">>,
    Repeat("1", IntMaxStrDigits + 1) \o <<" ", "a", "\n">>,
    <<"0", " ", "a", "\n">> \o Repeat("1", IntMaxStrDigits + 1)
      \o <<" ", "b", "\n">> }

Files ==
  Strings(FileAlphabet, MaxFileLen) \cup Strings(WideAlphabet, MaxWideLen)
    \cup SampleFiles(MaxLines) \cup LongIndexFiles

LabelValues ==
  { <<>>, <<"a">>, <<"1">>, <<"a", " ", "a">>, <<"1", " ", "a">>,
    <<"1", "a">>, <<" ", "a">>, <<"a", " ">>, <<"a", "\n">>,
    <<"a", "\n", "a">>, <<"a", "\r", "a">>, <<"\t", "a">>,
    <<"a", "U+00A0">>, <<"U+00B2", " ", "a">>, <<"U+0661", " ", "a">>,
    <<"+", "1", " ", "a">> }

Mappings == UNION {[0..(n - 1) -> LabelValues] : n \in 0..MaxLabels}

NoResult == [err |-> "pending", map |-> EmptyMap]

\* main() is not running in the label-loader harness
MainIdle ==
  /\ pc = "idle" /\ err = "none"
  /\ args = [labels |-> "none", threshold |-> 0, output |-> "none", count |-> 0]
  /\ dir_n = 0 /\ scenario = 0
  /\ labels = EmptyMap /\ img_name = <<>> /\ idx = 0 /\ run = 0
  /\ objs = [bound |-> FALSE, val |-> <<>>] /\ pos = 0
  /\ img_n = <<>> /\ img_id = <<>> /\ img_x = <<>> /\ img_y = <<>>
  /\ img_w = <<>> /\ img_h = <<>> /\ img_score = <<>>
  /\ img_csv = EmptyMap /\ i = 0 /\ stdout = <<>>
  /\ annotated = [img |-> 0, objs |-> <<>>]

InitFile ==
  /\ MainIdle
  /\ file \in Files
  /\ fmt = "given"
  /\ M = EmptyMap
  /\ result = NoResult
  /\ lpc = "written"

InitMapping ==
  /\ MainIdle
  /\ M \in Mappings
  /\ fmt \in {"indexed", "bare"}
  /\ file = <<>>
  /\ result = NoResult
  /\ lpc = "start"

InitLabels == InitFile \/ InitMapping

WriteStep ==
  /\ lpc = "start"
  /\ file' = WriteLabels(M, fmt)
  /\ lpc' = "written"
  /\ UNCHANGED <<fmt, M, result, mvars>>

LoadStep ==
  /\ lpc = "written"
  /\ result' = load_labels(file)
  /\ lpc' = "loaded"
  /\ UNCHANGED <<file, fmt, M, mvars>>

NextLabels == WriteStep \/ LoadStep

SpecLabels == InitLabels /\ [][NextLabels]_vars

(***************************************************************************)
(* main(): inputs.                                                         *)
(***************************************************************************)
MaxCount == 2
MaxImages == 254

\* line 105: print(img_name[253])
ProbeIndex == 253

\* line 83: default=0.4, in tenths
DefaultThreshold == 4

\* directory sizes: empty, one image, and the sizes around the probed index
DirSizes == {0, 1} \cup (ProbeIndex..MaxImages)

\* content of the label file named by --labels when it exists
GoodLabelFile == <<"0", " ", "a", "\n", "1", " ", "a", " ", "a", "\n">>
BadLabelFile == <<"0", " ", "a", "\n", "a", "\n">>

\* candidate detections the stubbed runtime can leave in its output tensors
DetA == [id |-> 0, score |-> 9, bbox |-> <<1, 2, 4, 6>>]
DetB == [id |-> 1, score |-> 5, bbox |-> <<0, 0, 2, 5>>]
DetC == [id |-> 2, score |-> 3, bbox |-> <<2, 1, 3, 3>>]

RawTable == << <<DetA>>, <<>>, <<DetC, DetB>>, <<DetB, DetA>> >>

Scenarios == 0..(Len(RawTable) - 1)

\* output tensors after the r-th interpreter.invoke() on image img
Raw(sc, img, r) == RawTable[((img + r + sc) % Len(RawTable)) + 1]

\* detect.get_output(interpreter, threshold, scale): candidates whose score
\* reaches the threshold, in tensor order
get_output(raw, threshold) ==
  SelectSeq(raw, LAMBDA d : d.score >= threshold)

Unbound == [bound |-> FALSE, val |-> <<>>]

\* labels.get(key, default)
DictGet(d, key, default) == IF key \in DOMAIN d THEN d[key] ELSE default

\* dict.update(other)
DictUpdate(d, other) ==
  [k \in (DOMAIN d) \cup (DOMAIN other) |->
     IF k \in DOMAIN other THEN other[k] ELSE d[k]]

LabelsIdle ==
  /\ fmt = "given" /\ M = EmptyMap /\ result = NoResult /\ lpc = "idle"

Init ==
  /\ LabelsIdle
  /\ args \in [labels : {"none", "missing.txt", "labels.txt"},
               threshold : {DefaultThreshold},
               output : {"none", "out.jpg"},
               count : 0..MaxCount]
  /\ file \in IF args.labels = "labels.txt"
              THEN {GoodLabelFile, BadLabelFile} ELSE {<<>>}
  /\ dir_n \in DirSizes
  /\ scenario \in Scenarios
  /\ pc = "load_labels" /\ err = "none"
  /\ labels = EmptyMap /\ img_name = <<>> /\ idx = 0 /\ run = 0
  /\ objs = Unbound /\ pos = 0
  /\ img_n = <<>> /\ img_id = <<>> /\ img_x = <<>> /\ img_y = <<>>
  /\ img_w = <<>> /\ img_h = <<>> /\ img_score = <<>>
  /\ img_csv = EmptyMap /\ i = 0 /\ stdout = <<>>
  /\ annotated = [img |-> 0, objs |-> <<>>]

\* an uncaught exception ends the run where it is raised
Raise(e) ==
  /\ pc' = "error"
  /\ err' = e

(***************************************************************************)
(* main(): steps.                                                          *)
(***************************************************************************)
\* line 91
LoadLabels ==
  /\ pc = "load_labels"
  /\ IF args.labels = "none"
     THEN /\ labels' = EmptyMap
          /\ pc' = "make_interpreter"
          /\ err' = err
     ELSE IF args.labels = "missing.txt"
     THEN /\ Raise("FileNotFoundError")
          /\ labels' = labels
     ELSE LET r == load_labels(file)
          IN IF r.err # "none"
             THEN /\ Raise(r.err)
                  /\ labels' = labels
             ELSE /\ labels' = r.map
                  /\ pc' = "make_interpreter"
                  /\ err' = err
  /\ UNCHANGED <<lvars, args, dir_n, scenario, img_name, idx, run, objs, pos,
                 acc, img_csv, i, stdout, annotated>>

\* lines 92-93: the runtime loads the model or raises
MakeInterpreter ==
  /\ pc = "make_interpreter"
  /\ \/ pc' = "list_images" /\ err' = err
     \/ Raise("ModelError")
  /\ UNCHANGED <<lvars, args, dir_n, scenario, labels, img_name, idx, run,
                 objs, pos, acc, img_csv, i, stdout, annotated>>

\* lines 94-104
ListImages ==
  /\ pc = "list_images"
  /\ img_name' = [k \in 1..dir_n |-> k]
  /\ img_n' = <<>> /\ img_id' = <<>> /\ img_x' = <<>> /\ img_y' = <<>>
  /\ img_w' = <<>> /\ img_h' = <<>> /\ img_score' = <<>>
  /\ img_csv' = EmptyMap
  /\ i' = 0
  /\ pc' = "probe"
  /\ UNCHANGED <<lvars, err, args, dir_n, scenario, labels, idx, run, objs,
                 pos, stdout, annotated>>

\* line 105
Probe ==
  /\ pc = "probe"
  /\ IF Len(img_name) > ProbeIndex
     THEN /\ pc' = "open" /\ err' = err
          /\ idx' = 1
     ELSE /\ Raise("IndexError")
          /\ idx' = idx
  /\ UNCHANGED <<lvars, args, dir_n, scenario, labels, img_name, run, objs,
                 pos, acc, img_csv, i, stdout, annotated>>

\* lines 106-113: next image of the for loop, opened and fed to the runtime,
\* or the loop's end
OpenImage ==
  /\ pc = "open"
  /\ IF idx <= Len(img_name)
     THEN \/ /\ pc' = "invoke" /\ err' = err
             /\ run' = 0
          \/ /\ Raise("ImageError")
             /\ run' = run
     ELSE /\ pc' = "build" /\ err' = err
          /\ run' = run
  /\ pos' = 0
  /\ UNCHANGED <<lvars, args, dir_n, scenario, labels, img_name, idx, objs,
                 acc, img_csv, i, stdout, annotated>>

\* variant of LoopImage: always the first name
LoopImage_First(names, k) == names[1]

\* line 106: the image the current pass of "for img in img_name" is bound to
LoopImage(names, k) == names[k]

\* variant of Decode: only the first decoding is kept
Decode_KeepFirst(old, raw, threshold) ==
  IF old.bound THEN old
  ELSE [bound |-> TRUE, val |-> get_output(raw, threshold)]

\* line 118: objs is rebound to what the latest invocation left behind
Decode(old, raw, threshold) ==
  [bound |-> TRUE, val |-> get_output(raw, threshold)]

\* lines 114-119: one pass of the timing loop, or its end
Invoke ==
  /\ pc = "invoke"
  /\ IF run < args.count
     THEN /\ run' = run + 1
          /\ objs' = Decode(objs, Raw(scenario, LoopImage(img_name, idx), run + 1),
                            args.threshold)
          /\ pc' = "invoke"
     ELSE /\ pc' = "results"
          /\ UNCHANGED <<run, objs>>
  /\ UNCHANGED <<lvars, err, args, dir_n, scenario, labels, img_name, idx,
                 pos, acc, img_csv, i, stdout, annotated>>

\* variant of PrintNoObjects: the test is inverted
PrintNoObjects_Inverted(out, os, img) ==
  IF os # <<>>
  THEN Append(out, [kind |-> "No objects detected", img |-> img])
  ELSE out

\* lines 122-123
PrintNoObjects(out, os, img) ==
  IF os = <<>>
  THEN Append(out, [kind |-> "No objects detected", img |-> img])
  ELSE out

\* lines 121-123
Results ==
  /\ pc = "results"
  /\ IF ~objs.bound
     THEN /\ Raise("UnboundLocalError")
          /\ UNCHANGED <<stdout, pos>>
     ELSE /\ stdout' = PrintNoObjects(stdout, objs.val, LoopImage(img_name, idx))
          /\ pos' = 1
          /\ pc' = "record" /\ err' = err
  /\ UNCHANGED <<lvars, args, dir_n, scenario, labels, img_name, idx, run,
                 objs, acc, img_csv, i, annotated>>

\* variant of BoxW: xmax - ymin
BoxW_FromY(obj) == obj.bbox[3] - obj.bbox[2]

\* line 130
BoxW(obj) == obj.bbox[3] - obj.bbox[1]

\* line 131
BoxH(obj) == obj.bbox[4] - obj.bbox[2]

\* lines 125-141: one pass of "for obj in objs", or its end and print(i)
Record ==
  /\ pc = "record"
  /\ IF pos <= Len(objs.val)
     THEN LET img == LoopImage(img_name, idx)
              obj == objs.val[pos]
              w == BoxW(obj)
              h == BoxH(obj)
          IN /\ stdout' = Append(stdout,
                   [kind |-> "object", img |-> img,
                    name |-> DictGet(labels, obj.id, obj.id),
                    id |-> obj.id, score |-> obj.score, bbox |-> obj.bbox,
                    w |-> w, h |-> h])
             /\ img_n' = Append(img_n, img)
             /\ img_id' = Append(img_id, obj.id)
             /\ img_x' = Append(img_x, obj.bbox[1])
             /\ img_y' = Append(img_y, obj.bbox[2])
             /\ img_w' = Append(img_w, w)
             /\ img_h' = Append(img_h, h)
             /\ img_score' = Append(img_score, obj.score)
             /\ pos' = pos + 1
             /\ pc' = "record"
     ELSE /\ pc' = "annotate"
          /\ UNCHANGED <<stdout, acc, pos>>
  /\ UNCHANGED <<lvars, err, args, dir_n, scenario, labels, img_name, idx,
                 run, objs, img_csv, i, annotated>>

\* lines 63-71: what draw_objects puts on the image
draw_objects(img, os, ls) ==
  [img |-> img,
   objs |-> [k \in 1..Len(os) |->
               [box |-> os[k].bbox,
                text |-> DictGet(ls, os[k].id, os[k].id),
                score |-> os[k].score]]]

\* lines 143-148
Annotate ==
  /\ pc = "annotate"
  /\ annotated' = IF args.output # "none"
                  THEN draw_objects(LoopImage(img_name, idx), objs.val, labels)
                  ELSE annotated
  /\ i' = i + 1
  /\ idx' = idx + 1
  /\ pc' = "open"
  /\ UNCHANGED <<lvars, err, args, dir_n, scenario, labels, img_name, run,
                 objs, pos, acc, img_csv, stdout>>

\* variant of img_dict: the file name of the image processed last
img_dict_LastImage(n) ==
  [image_filename |-> img_name[Len(img_name)],
   label_id |-> img_id,
   x |-> img_x,
   y |-> img_y,
   w |-> img_w,
   h |-> img_h,
   confidence |-> img_score]

\* lines 150-158
img_dict(n) ==
  [image_filename |-> img_n[n + 1],
   label_id |-> img_id,
   x |-> img_x,
   y |-> img_y,
   w |-> img_w,
   h |-> img_h,
   confidence |-> img_score]

\* lines 149-159: one pass of "for i in range(len(img_x))", or its end
Build ==
  /\ pc = "build"
  /\ IF pos < Len(img_x)
     THEN /\ i' = pos
          /\ img_csv' = DictUpdate(img_csv, img_dict(pos))
          /\ pos' = pos + 1
          /\ pc' = "build"
     ELSE /\ pc' = "export"
          /\ UNCHANGED <<i, img_csv, pos>>
  /\ UNCHANGED <<lvars, err, args, dir_n, scenario, labels, img_name, idx,
                 run, objs, acc, stdout, annotated>>

\* line 161: img_csv is a dict, which has no to_csv attribute
Export ==
  /\ pc = "export"
  /\ Raise("AttributeError")
  /\ UNCHANGED <<lvars, args, dir_n, scenario, labels, img_name, idx, run,
                 objs, pos, acc, img_csv, i, stdout, annotated>>

Next ==
  \/ LoadLabels
  \/ MakeInterpreter
  \/ ListImages
  \/ Probe
  \/ OpenImage
  \/ Invoke
  \/ Results
  \/ Record
  \/ Annotate
  \/ Build
  \/ Export

Spec == Init /\ [][Next]_vars

(***************************************************************************)
(* Properties of load_labels, checked under SpecLabels.                    *)
(***************************************************************************)
\* one of the digits 0-9
IsDigitChar(c) == \E d \in 1..Len(DigitChars) : DigitChars[d] = c

\* length of the run of digits 0-9 a line begins with
DigitPrefixLen(line) ==
  LET others == {k \in 1..Len(line) : ~IsDigitChar(line[k])}
  IN IF others = {} THEN Len(line) ELSE Min(others) - 1

LeadingInt(line) == DecimalValue(SubSeq(line, 1, DigitPrefixLen(line)))

RestOfLine(line) == SubSeq(line, DigitPrefixLen(line) + 1, Len(line))

\* every line is "<digits 0-9> <label>"
DigitsThenSpace(lines) ==
  \A k \in 1..Len(lines) :
    LET n == DigitPrefixLen(lines[k])
    IN n > 0 /\ n < Len(lines[k]) /\ lines[k][n + 1] = " "

\* every line is "<digits 0-9> <label>" with no more digits than int() reads
WellIndexed(lines) ==
  /\ DigitsThenSpace(lines)
  /\ \A k \in 1..Len(lines) : DigitPrefixLen(lines[k]) <= IntMaxStrDigits

\* position k of the text ends a line: a line feed, or a carriage return
\* that no line feed follows
EndsLine(f, k) ==
  \/ f[k] = "\n"
  \/ f[k] = "\r" /\ ~(k < Len(f) /\ f[k + 1] = "\n")

\* number of lines of a text: its line ends, plus an unterminated last line
LineCount(f) ==
  Cardinality({k \in 1..Len(f) : EndsLine(f, k)})
    + (IF f # <<>> /\ ~EndsLine(f, Len(f)) THEN 1 ELSE 0)

\* C3 as stated: every file whose first line starts with a digit loads to a
\* mapping keyed by exactly the integers its lines start with, each mapped to
\* the stripped rest of its line -- also when the first token is not purely
\* digits or a later line has no index or no space.
C3_StartsWithDigit ==
  (lpc = "loaded" /\ file # <<>> /\ IsDigitChar(file[1])) =>
    LET lines == readlines(file)
        numbered == {k \in 1..Len(lines) : DigitPrefixLen(lines[k]) > 0}
    IN /\ result.err = "none"
       /\ DOMAIN result.map = {LeadingInt(lines[k]) : k \in numbered}
       /\ \A k \in numbered :
            result.map[LeadingInt(lines[k])] = strip(RestOfLine(lines[k]))

\* C3 amended: when every line of the file begins with a run of at most
\* IntMaxStrDigits decimal digits 0-9 immediately followed by a space,
\* load_labels returns a mapping keyed by exactly those integers, each mapped
\* to the stripped rest of the last line that starts with it.
C3_WellIndexed ==
  (lpc = "loaded" /\ WellIndexed(readlines(file))) =>
    LET lines == readlines(file)
        lastOf(key) == Max({k \in 1..Len(lines) : LeadingInt(lines[k]) = key})
    IN /\ result.err = "none"
       /\ DOMAIN result.map = {LeadingInt(lines[k]) : k \in 1..Len(lines)}
       /\ \A key \in DOMAIN result.map :
            result.map[key] = strip(RestOfLine(lines[lastOf(key)]))

C3_Witness ==
  /\ lpc = "loaded"
  /\ WellIndexed(readlines(file))
  /\ Len(readlines(file)) = 2
  /\ DOMAIN result.map = {0, 1}
  /\ result.map[0] = <<"a">>

\* C4: a file whose first line does not begin with a digit (a character
\* str.isdigit() accepts) loads to keys 0..n-1 in line order, n the number of
\* lines, key i mapped to the stripped text of line i; a file with no lines
\* loads to the empty mapping.
C4_Sequential ==
  lpc = "loaded" =>
    /\ file = <<>> => result = [err |-> "none", map |-> EmptyMap]
    /\ (file # <<>> /\ ~IsDigit(file[1])) =>
         LET lines == readlines(file)
         IN /\ result.err = "none"
            /\ DOMAIN result.map = 0..(LineCount(file) - 1)
            /\ \A n \in DOMAIN result.map : result.map[n] = strip(lines[n + 1])

C4_Witness ==
  /\ lpc = "loaded"
  /\ file # <<>> /\ ~IsDigit(file[1])
  /\ DOMAIN result.map = {0, 1}
  /\ result.map[0] # result.map[1]
  /\ result.map[1] # <<>>

\* C5 as stated: every mapping with keys 0..n-1 written to a label file, in
\* either form, reloads to the same mapping.
C5_RoundTrip ==
  (lpc = "loaded" /\ fmt \in {"indexed", "bare"}) =>
    result = [err |-> "none", map |-> M]

\* a label that has no line break in it and no surrounding whitespace
CleanLabel(v) ==
  /\ v # <<>> => (v[1] \notin Whitespace /\ v[Len(v)] \notin Whitespace)
  /\ \A k \in 1..Len(v) : v[k] \notin {"\n", "\r"}

\* the first label does not read as "<digits> <label>": it has no space, or
\* what precedes its first space is not a run of digits
BareSafe(m) ==
  0 \in DOMAIN m =>
    LET sp == {k \in 1..Len(m[0]) : m[0][k] = " "}
    IN \/ sp = {}
       \/ Min(sp) = 1
       \/ \E k \in 1..(Min(sp) - 1) : ~IsDigit(m[0][k])

\* C5 amended: a mapping with keys 0..n-1 whose labels contain no line break
\* and no leading or trailing whitespace, written one newline-terminated line
\* per key, reloads to the same mapping from the "<int> <label>" form, and
\* from the bare form provided its first label does not begin with digits
\* followed by a space.
C5_RoundTripClean ==
  ( /\ lpc = "loaded"
    /\ fmt \in {"indexed", "bare"}
    /\ \A k \in DOMAIN M : CleanLabel(M[k])
    /\ fmt = "bare" => BareSafe(M) ) =>
    result = [err |-> "none", map |-> M]

C5_Witness ==
  /\ lpc = "loaded"
  /\ fmt = "indexed"
  /\ DOMAIN M = {0, 1}
  /\ M[0] = <<"1", " ", "a">> /\ M[1] = <<"a", " ", "a">>
  /\ result.map = M

(***************************************************************************)
(* Properties of main(), checked under Spec.                               *)
(***************************************************************************)
\* what the stubbed decoder yields for image m after the last of the
\* args.count invocations
Decoded(m) == get_output(Raw(scenario, m, args.count), args.threshold)

\* the failures the error-handling section lists
ListedFailures == {"FileNotFoundError", "ValueError", "ModelError", "ImageError"}

\* row k of the accumulators describes detection d
RowIs(k, d) ==
  /\ img_id[k] = d.id
  /\ img_x[k] = d.bbox[1]
  /\ img_y[k] = d.bbox[2]
  /\ img_w[k] = d.bbox[3] - d.bbox[1]
  /\ img_h[k] = d.bbox[4] - d.bbox[2]
  /\ img_score[k] = d.score

\* C1: with exactly one image and a decoder returning exactly one detection
\* of score 0.9 under threshold 0.4, the run gets to the export without
\* failing and the table exported holds exactly that one row.
C1_EndToEnd ==
  ( /\ dir_n = 1
    /\ args.count >= 1
    /\ args.threshold = DefaultThreshold
    /\ Len(Decoded(1)) = 1
    /\ Decoded(1)[1].score = 9 ) =>
    /\ pc = "error" => err \in ListedFailures
    /\ pc = "done" =>
         LET d == Decoded(1)[1]
         IN img_csv = [image_filename |-> 1,
                       label_id |-> <<d.id>>,
                       x |-> <<d.bbox[1]>>,
                       y |-> <<d.bbox[2]>>,
                       w |-> <<d.bbox[3] - d.bbox[1]>>,
                       h |-> <<d.bbox[4] - d.bbox[2]>>,
                       confidence |-> <<9>>]

\* C2: an image whose decoded detection list is empty gets the line
\* "No objects detected" and no entry in any accumulator, and is never the
\* file name the table carries; checked for the image being processed, and
\* for all images once the last one is done.
C2_NoObjects ==
  /\ pc \in {"record", "annotate"} =>
       LET m == img_name[idx]
           last == stdout[Len(stdout)]
       IN IF Decoded(m) = <<>>
          THEN /\ stdout # <<>>
               /\ last = [kind |-> "No objects detected", img |-> m]
               /\ \A k \in 1..Len(img_n) : img_n[k] # m
          ELSE stdout # <<>> =>
                 ~(last.kind = "No objects detected" /\ last.img = m)
  /\ pc = "export" =>
       LET logged == {stdout[k].img :
                        k \in {q \in 1..Len(stdout) :
                                 stdout[q].kind = "No objects detected"}}
           recorded == {img_n[k] : k \in 1..Len(img_n)}
       IN \A m \in 1..Len(img_name) :
            IF Decoded(m) = <<>>
            THEN m \in logged /\ m \notin recorded
            ELSE m \notin logged
  /\ img_csv # EmptyMap => Decoded(img_csv.image_filename) # <<>>

C2_Witness ==
  /\ pc = "annotate"
  /\ Decoded(img_name[idx]) = <<>>
  /\ img_n # <<>>
  /\ stdout[Len(stdout)] = [kind |-> "No objects detected", img |-> img_name[idx]]

\* C6: each time a detection has been processed, the values just appended
\* are x = xmin, y = ymin, w = xmax - xmin and h = ymax - ymin of that
\* detection.
C6_BoxFields ==
  (pc = "record" /\ pos > 1) =>
    LET d == Decoded(img_name[idx])[pos - 1]
    IN /\ img_x[Len(img_x)] = d.bbox[1]
       /\ img_y[Len(img_y)] = d.bbox[2]
       /\ img_w[Len(img_w)] = d.bbox[3] - d.bbox[1]
       /\ img_h[Len(img_h)] = d.bbox[4] - d.bbox[2]

C6_Witness ==
  /\ pc = "record" /\ pos = 3
  /\ Len(img_w) >= 3
  /\ img_w[Len(img_w)] # img_w[Len(img_w) - 1]
  /\ img_h[Len(img_h)] = 4

\* C7: a run ends with an error exactly when one of the listed steps (label
\* file, model initialisation, image opening or decoding) fails.
C7_FailurePropagation ==
  /\ pc = "error" => err \in ListedFailures
  /\ err \in ListedFailures => pc = "error"

\* the line printed for detection d of image m
ObjectLine(m, d) ==
  [kind |-> "object", img |-> m, name |-> DictGet(labels, d.id, d.id),
   id |-> d.id, score |-> d.score, bbox |-> d.bbox,
   w |-> d.bbox[3] - d.bbox[1], h |-> d.bbox[4] - d.bbox[2]]

\* C8: on every image the runtime is invoked exactly args.count times, and
\* what is printed, accumulated and drawn for the image is exactly what was
\* decoded after the last of these invocations on that image.
C8_LastInvocation ==
  /\ pc = "invoke" => run <= args.count
  /\ pc \in {"results", "record", "annotate"} => run = args.count
  /\ pc \in {"record", "annotate"} =>
       /\ args.count >= 1
       /\ objs = [bound |-> TRUE, val |-> Decoded(img_name[idx])]
  /\ args.count = 0 => stdout = <<>> /\ img_n = <<>> /\ annotated.img = 0
  /\ pc = "annotate" =>
       LET m == img_name[idx]
           ds == Decoded(m)
           base == Len(img_n) - Len(ds)
           out == Len(stdout) - Len(ds)
       IN /\ base >= 0 /\ out >= 0
          /\ \A q \in 1..Len(ds) :
               /\ img_n[base + q] = m
               /\ RowIs(base + q, ds[q])
               /\ stdout[out + q] = ObjectLine(m, ds[q])
          /\ base > 0 => img_n[base] # m
          /\ out > 0 => stdout[out].img # m \/ ds = <<>>
  /\ annotated.img # 0 =>
       annotated = draw_objects(annotated.img, Decoded(annotated.img), labels)

C8_Witness ==
  /\ pc = "open" /\ idx = 3
  /\ args.count = 2
  /\ annotated.img = 2
  /\ objs.val # <<>>
  /\ objs.val # get_output(Raw(scenario, 2, 1), args.threshold)
  /\ objs.val # Decoded(1)

\* C9 as stated: the table is built once per processed image, pairing the
\* whole accumulated lists with that image's file name, and is serialized to
\* the flat file once after the last image.
C9_BuiltPerImage ==
  /\ (pc = "open" /\ idx > 1) =>
       img_csv = [image_filename |-> img_name[idx - 1],
                  label_id |-> img_id,
                  x |-> img_x,
                  y |-> img_y,
                  w |-> img_w,
                  h |-> img_h,
                  confidence |-> img_score]
  /\ pc = "error" => err # "AttributeError"

\* C9 amended: the table stays empty while the images are processed; after
\* the last image it is rebuilt once per recorded detection, each build
\* overwriting the previous one and pairing the whole accumulated lists with
\* the file name of that one detection; the serialization that follows
\* raises, the table being a plain dict.
C9_BuiltAfterLoop ==
  LET table(n) == [image_filename |-> img_n[n],
                   label_id |-> img_id,
                   x |-> img_x,
                   y |-> img_y,
                   w |-> img_w,
                   h |-> img_h,
                   confidence |-> img_score]
      built == IF pc = "build" THEN pos ELSE Len(img_x)
      afterLoop == pc \in {"build", "export"}
                     \/ (pc = "error" /\ err = "AttributeError")
  IN /\ ~afterLoop => img_csv = EmptyMap
     /\ afterLoop =>
          /\ idx = Len(img_name) + 1
          /\ built \in 0..Len(img_x)
          /\ img_csv = IF built = 0 THEN EmptyMap ELSE table(built)
          /\ built > 0 => i = built - 1
     /\ pc # "done"

C9_Witness ==
  /\ pc = "error" /\ err = "AttributeError"
  /\ Len(img_n) >= 2 /\ Len(img_n) # Len(img_name)
  /\ img_csv.image_filename = img_n[Len(img_n)]
  /\ img_csv.image_filename # img_name[Len(img_name)]
  /\ img_csv.x = img_x

\* the rows the images lo..hi give rise to: one per decoded detection, in
\* image order, then detection order (the range is halved, so the nesting
\* stays logarithmic in the number of images)
RECURSIVE ExpectedRows(_, _)
ExpectedRows(lo, hi) ==
  IF lo > hi THEN <<>>
  ELSE IF lo = hi
  THEN [q \in 1..Len(Decoded(lo)) |-> [img |-> lo, det |-> Decoded(lo)[q]]]
  ELSE LET mid == (lo + hi) \div 2
       IN ExpectedRows(lo, mid) \o ExpectedRows(mid + 1, hi)

C10_State ==
  LET n == Len(img_n)
  IN /\ Len(img_id) = n /\ Len(img_x) = n /\ Len(img_y) = n
     /\ Len(img_w) = n /\ Len(img_h) = n /\ Len(img_score) = n
     /\ pc = "record" =>
          LET m == img_name[idx]
              base == n - (pos - 1)
          IN /\ base >= 0
             /\ \A q \in 1..(pos - 1) :
                  img_n[base + q] = m /\ RowIs(base + q, Decoded(m)[q])
             /\ base > 0 => img_n[base] < m
     /\ pc = "export" =>
          LET rows == ExpectedRows(1, Len(img_name))
          IN /\ n = Len(rows)
             /\ \A k \in 1..n :
                  img_n[k] = rows[k].img /\ RowIs(k, rows[k].det)

Extends(old, new) ==
  \/ new = old
  \/ Len(new) = Len(old) + 1 /\ SubSeq(new, 1, Len(old)) = old

C10_Step ==
  /\ Extends(img_n, img_n') /\ Extends(img_id, img_id')
  /\ Extends(img_x, img_x') /\ Extends(img_y, img_y')
  /\ Extends(img_w, img_w') /\ Extends(img_h, img_h')
  /\ Extends(img_score, img_score')
  /\ Len(img_n') = Len(img_n) + 1 <=> (pc = "record" /\ pc' = "record")

\* C10: the seven accumulators always have the same length; rows are only
\* ever appended, one per detection processed, never changed or removed;
\* the rows of the image being processed describe its detections in order,
\* each naming that image, after the rows of the earlier images; and once
\* the last image is done row k of every list describes the k-th detection
\* in image order, then detection order.
C10_Accumulators == []C10_State /\ [][C10_Step]_vars

C10_Witness ==
  /\ pc = "open" /\ idx = 5
  /\ Len(img_n) >= 4
  /\ img_n[1] # img_n[Len(img_n)]
  /\ \E k \in 1..(Len(img_n) - 1) : img_n[k] = img_n[k + 1]

====
